---- MODULE Spec2Model ----
(***************************************************************************)
(* A model of the pypengie formula library: the time helpers of utils.py,  *)
(* the statistics of datatools.py, the air functions of tdyn.py and the    *)
(* thermocouple EMF of tcconvert.py.  The library has no                   *)
(* shared state; the state of the model is the last call made (function    *)
(* and arguments), its outcome (a returned value or a raised exception)    *)
(* and the lines the call printed on standard output.                      *)
(*                                                                         *)
(* Numbers.  Python ints are modelled as TLA+ integers.  A Python float    *)
(* that the code obtains by true division `/` is modelled as the exact     *)
(* rational it denotes, a record [num, den] in lowest terms; rounding of   *)
(* IEEE doubles is not modelled (all values here are small integers and    *)
(* halves/quotients of them).                                              *)
(***************************************************************************)
EXTENDS Integers, Sequences, FiniteSets, TLC

VARIABLES call, result, stdout

vars == <<call, result, stdout>>

(***************************************************************************)
(* Outcomes of a call.                                                     *)
(***************************************************************************)
Return(v) == [kind |-> "return", val |-> v]

Raise(e) == [kind |-> "raise", exc |-> e]

NoResult == [kind |-> "none"]

(***************************************************************************)
(* Exact rationals for the results of Python's true division.              *)
(***************************************************************************)
Abs(x) == IF x < 0 THEN -x ELSE x

RECURSIVE GCD(_, _)
GCD(a, b) == IF b = 0 THEN a ELSE GCD(b, a % b)

\* n / d for d # 0, in lowest terms with a positive denominator
Frac(n, d) ==
  LET g == GCD(Abs(n), Abs(d))
      s == IF d < 0 THEN -1 ELSE 1
  IN  [num |-> (s * n) \div g, den |-> (s * d) \div g]

FracOfInt(k) == [num |-> k, den |-> 1]

\* Python's <= between floats (rationals)
FracLe(p, q) == p.num * q.den <= q.num * p.den

FracAdd(p, q) == Frac(p.num * q.den + q.num * p.den, p.den * q.den)

FracSub(p, q) == Frac(p.num * q.den - q.num * p.den, p.den * q.den)

FracMul(p, q) == Frac(p.num * q.num, p.den * q.den)

FracAbs(p) == [num |-> Abs(p.num), den |-> p.den]

FracZero == FracOfInt(0)

(***************************************************************************)
(* utils.py: loctime2int / int2loctime                                     *)
(***************************************************************************)
\* bounds of the enumerated arguments: hours in -1..MaxHours, minutes and
\* seconds in -1..MaxMinSec
MaxHours == 25

MaxMinSec == 61

\* the literals of utils.py
HourLimit == 24

MinSecLimit == 60

SecPerHour == 3600

SecPerMin == 60

Mods == {1, 1000}

HoursArg == -1 .. MaxHours

MinSecArg == -1 .. MaxMinSec

\* utils.py:96
TooLarge(hours, minutes, seconds) ==
  minutes > MinSecLimit \/ seconds > MinSecLimit \/ hours > HourLimit

\* utils.py:98
Negative(hours, minutes, seconds) ==
  minutes < 0 \/ seconds < 0 \/ hours < 0

loctime2int(hours, minutes, seconds, mod) ==
  IF TooLarge(hours, minutes, seconds) THEN Raise("AttributeError")
  ELSE IF Negative(hours, minutes, seconds) THEN Raise("AttributeError")
  ELSE Return(mod * SecPerHour * hours + mod * SecPerMin * minutes
              + mod * seconds)

\* the hour count of int2loctime with the second division forgotten
HoursOfNoMod(time, mod) == time \div SecPerHour

\* utils.py:112 (Python's // is floor division, as is \div)
HoursOf(time, mod) == time \div (SecPerHour * mod)

\* utils.py:113
MinutesOf(time, hours, mod) ==
  (time - hours * SecPerHour * mod) \div (SecPerMin * mod)

\* utils.py:114, a true division: the seconds come back as a float
SecondsOf(time, hours, minutes, mod) ==
  Frac(time - hours * SecPerHour * mod - minutes * SecPerMin * mod, mod)

int2loctime(time, mod) ==
  LET hours == HoursOf(time, mod)
      minutes == MinutesOf(time, hours, mod)
      seconds == SecondsOf(time, hours, minutes, mod)
  IN  Return([hours |-> hours, minutes |-> minutes, seconds |-> seconds])

\* the arguments of a session: loctime2int(hours, minutes, seconds, mod)
TimeCalls ==
  [fn : {"loctime2int"}, hours : HoursArg, minutes : MinSecArg,
   seconds : MinSecArg, mod : Mods]

\* the pending call loctime2int(hours, minutes, seconds, mod) is evaluated
CallLoctime2int ==
  /\ call.fn = "loctime2int"
  /\ result = NoResult
  /\ result' = loctime2int(call.hours, call.minutes, call.seconds, call.mod)
  /\ UNCHANGED <<call, stdout>>

\* a call int2loctime(t, mod) on the integer t that loctime2int(h, m, s, mod)
\* has just returned; `of` remembers (h, m, s)
CallInt2loctime ==
  /\ call.fn = "loctime2int"
  /\ result.kind = "return"
  /\ call' = [fn |-> "int2loctime", time |-> result.val, mod |-> call.mod,
              of |-> [hours |-> call.hours, minutes |-> call.minutes,
                      seconds |-> call.seconds]]
  /\ result' = int2loctime(result.val, call.mod)
  /\ UNCHANGED stdout

InitTime ==
  /\ call \in TimeCalls
  /\ result = NoResult
  /\ stdout = <<>>

NextTime == CallLoctime2int \/ CallInt2loctime

SpecTime == InitTime /\ [][NextTime]_vars

(***************************************************************************)
(* datatools.py                                                            *)
(*                                                                         *)
(* The functions are modelled body by body, statement by statement.  The   *)
(* dictionary display of chi2test (lines 123-133) lacks the comma between  *)
(* its 'H0' and 'H1' items; the model reads the two items as written,      *)
(* with the comma supplied, and notes the defect at chi2test.              *)
(*                                                                         *)
(* Python objects passed as `data`: a numpy array or a list of ints, or    *)
(* None (an object no numeric primitive accepts).                          *)
(***************************************************************************)
\* bounds of the enumerated samples
MaxLen == 4

MaxVal == 3

MaxEdge == 6

SeqsUpTo(S, n) == UNION {[1 .. k -> S] : k \in 0 .. n}

NdArray(items) == [type |-> "ndarray", items |-> items]

PyList(items) == [type |-> "list", items |-> items]

PyNone == [type |-> "NoneType"]

NaN == [type |-> "float", nan |-> TRUE]

IsSeqObj(data) == data.type \in {"ndarray", "list"}

Objects(S) ==
  {NdArray(x) : x \in SeqsUpTo(S, MaxLen)}
    \cup {PyList(x) : x \in SeqsUpTo(S, MaxLen)} \cup {PyNone}

Samples == Objects(0 .. MaxVal)

EdgeObjects == Objects(0 .. MaxEdge)

RECURSIVE SumSeq(_)
SumSeq(x) == IF x = <<>> THEN 0 ELSE x[1] + SumSeq(Tail(x))

RECURSIVE FracSumSeq(_)
FracSumSeq(x) ==
  IF x = <<>> THEN FracZero ELSE FracAdd(x[1], FracSumSeq(Tail(x)))

\* np.mean of a non-empty sequence of ints
np_mean(items) == Frac(SumSeq(items), Len(items))

\* np.var: the mean of the squared deviations from the mean (ddof = 0)
np_var(items) ==
  LET m == np_mean(items)
      dev2 == [i \in 1 .. Len(items) |->
                 LET d == FracSub(FracOfInt(items[i]), m) IN FracMul(d, d)]
  IN  FracMul(FracSumSeq(dev2), Frac(1, Len(items)))

\* np.std = sqrt(np.var), kept as the root of its exact radicand
np_std(items) == [radicand |-> np_var(items)]

\* p <= 3 * sqrt(r.radicand): the three-sigma rule of the docstring
LeThreeRoot(p, r) == FracLe(FracMul(p, p), FracMul(FracOfInt(9), r.radicand))

\* p <= sqrt(r.radicand) for a rational p >= 0
LeRoot(p, r) == FracLe(FracMul(p, p), r.radicand)

\* datatools.py:48, one entry of np.abs(data - data_mean) <= data_std
WithinStd(x, data_mean, data_std) ==
  LeRoot(FracAbs(FracSub(FracOfInt(x), data_mean)), data_std)

\* data[data_mask] of a numpy array: the selected items in their order
RECURSIVE Compress(_, _)
Compress(items, data_mask) ==
  IF items = <<>> THEN <<>>
  ELSE (IF data_mask[1] THEN <<items[1]>> ELSE <<>>)
         \o Compress(Tail(items), Tail(data_mask))

TypeErrorLine(what, data) ==
  "error: expected " \o what \o " type, got " \o data.type

\* clean3sigma(data, mask): [out |-> outcome, printed |-> lines printed]
clean3sigma(data, mask) ==
  IF ~IsSeqObj(data)
    THEN \* np.mean raises TypeError: caught at line 45
         [out |-> Return(NaN),
          printed |-> <<TypeErrorLine("numpy.ndarray", data)>>]
  ELSE LET n == Len(data.items)
           data_mask ==
             [i \in 1 .. n |->
                WithinStd(data.items[i], np_mean(data.items),
                          np_std(data.items))]
       IN  IF mask THEN [out |-> Return(NdArray(data_mask)), printed |-> <<>>]
           ELSE IF data.type = "list"
             THEN \* a list is not indexable by an array: line 52, uncaught
                  [out |-> Raise("TypeError"), printed |-> <<>>]
           ELSE [out |-> Return(NdArray(Compress(data.items, data_mask))),
                 printed |-> <<>>]

\* the midpoint with the division by two forgotten
MidpointNoHalf(a, b) == FracOfInt(a + b)

\* datatools.py:61
Midpoint(a, b) == Frac(a + b, 2)

var_interv(data) ==
  IF ~IsSeqObj(data)
    THEN \* len(data) raises TypeError: caught at line 63
         [out |-> Return(NaN), printed |-> <<TypeErrorLine("list", data)>>]
  ELSE LET n == Len(data.items)
       IN  [out |-> Return(NdArray(
                      [i \in 1 .. (IF n = 0 THEN 0 ELSE n - 1) |->
                         Midpoint(data.items[i], data.items[i + 1])])),
            printed |-> <<>>]

(***************************************************************************)
(* Name resolution.  A name read in a function body is looked up among the *)
(* function's local names and the names bound at module level (lines       *)
(* 10-14 and the function definitions); none of the names looked up below  *)
(* is a builtin.  A name bound in neither raises NameError.                *)
(***************************************************************************)
ModuleGlobals ==
  {"np", "chi2", "t", "BASEALPHA", "BASEZSTAR", "zstar_help", "clean3sigma",
   "var_interv", "phi", "chi2test", "conf_level", "conf_clean",
   "moving_average", "sqdistance"}

IsBound(name, locals) == name \in locals \cup ModuleGlobals

(***************************************************************************)
(* Values base + coef * sqrt(rad) with rational base, coef and rad >= 0:   *)
(* the confidence bounds mean -/+ t * std / sqrt(n), kept exact.           *)
(***************************************************************************)
Surd(base, coef, rad) == [base |-> base, coef |-> coef, rad |-> rad]

\* sign(p) * p^2, which orders as p does
SgnSq(p) ==
  IF p.num < 0 THEN FracSub(FracZero, FracMul(p, p)) ELSE FracMul(p, p)

IsNaN(v) == "nan" \in DOMAIN v

\* s <= q and q <= s for a surd s and a rational q; false of a nan
SurdLeFrac(s, q) ==
  /\ ~IsNaN(s)
  /\ ~IsNaN(q)
  /\ FracLe(FracMul(SgnSq(s.coef), s.rad), SgnSq(FracSub(q, s.base)))

FracLeSurd(q, s) ==
  /\ ~IsNaN(s)
  /\ ~IsNaN(q)
  /\ FracLe(SgnSq(FracSub(q, s.base)), FracMul(SgnSq(s.coef), s.rad))

(***************************************************************************)
(* chi2test.  The statistic chi2exp (lines 109-118: midpoints, weighted    *)
(* mean and deviation, the density phi, a sum of quotients) and the        *)
(* critical value chi2Cr (scipy's chi2.ppf, line 122) are values of the    *)
(* numeric libraries; the call carries them as the numbers k those         *)
(* computations would yield.  Of the result record the model keeps the     *)
(* statistic, the critical value and the two flags.  Lines 131-132 are     *)
(* written without the comma that separates the 'H0' and 'H1' items.       *)
(***************************************************************************)
MaxStat == 1

StatVals == 0 .. MaxStat

HistPairs ==
  {[type |-> "tuple", freq |-> f, ranges |-> r] :
     f \in SeqsUpTo(0 .. 1, 2), r \in SeqsUpTo(0 .. 2, 3)}

Chi2Locals == {"data", "datatype", "alpha"}

\* datatools.py:131 and :132
FlagH0(chi2exp, chi2Cr) == chi2exp < chi2Cr

FlagH1(chi2exp, chi2Cr) == chi2exp > chi2Cr

\* lines 93-108 once the selector is bound to a value: "ok" or the exception
ModeSelect(data, selector) ==
  IF selector = "data"
    THEN IF data.type \in {"ndarray", "list"} THEN "ok" ELSE "TypeError"
  ELSE IF selector = "hist"
    THEN IF data.type = "tuple" THEN "ok"
         ELSE IF data.type = "NoneType" THEN "TypeError"
         ELSE IF Len(data.items) = 2
           THEN "TypeError"  \* two numbers unpacked; var_interv(ranges) is nan
         ELSE "ValueError"
  ELSE "AttributeError"

chi2test(data, datatype, chi2exp, chi2Cr) ==
  IF ~IsBound("dtype", Chi2Locals)
    THEN Raise("NameError")  \* line 93 reads `dtype`; the parameter is `datatype`
  ELSE LET sel == ModeSelect(data, datatype)
       IN  IF sel # "ok" THEN Raise(sel)
           ELSE Return([chi2cr |-> chi2Cr, chi2 |-> chi2exp,
                        H0 |-> FlagH0(chi2exp, chi2Cr),
                        H1 |-> FlagH1(chi2exp, chi2Cr)])

(***************************************************************************)
(* conf_level.  tstud, the Student quantile of scipy's t.ppf, is carried   *)
(* by the call as the number that computation would yield.                 *)
(***************************************************************************)
MaxT == 2

TVals == 0 .. MaxT

Methods == {"var", "std", "other"}

\* the names bound in conf_level when lines 159 and 164 are reached
ConfLocals ==
  {"data", "method", "conf_lower", "conf_upper", "tstud", "mean", "std",
   "variance", "n"}

\* lines 170-181 for the 'std' method on an empty array: the mean of no
\* numbers is nan, and so is all that is computed from it
ConfRecordEmpty(tstud) ==
  [res |-> <<"[", NaN, " - ", NaN, " - ", NaN>>,
   u |-> NaN, l |-> NaN, ul |-> <<NaN, NaN>>, rng |-> NaN, mean |-> NaN,
   var |-> NaN, std |-> NaN, t |-> tstud]

\* lines 170-181 for the 'std' method, n >= 1
ConfRecord(items, tstud) ==
  LET mean == np_mean(items)
      variance == np_var(items)
      radn == FracMul(variance, Frac(1, Len(items)))
      t == FracOfInt(tstud)
      conf_lower == Surd(mean, FracSub(FracZero, t), radn)
      conf_upper == Surd(mean, t, radn)
  IN  [res |-> <<"[", conf_lower, " - ", mean, " - ", conf_upper>>,
       u |-> conf_upper, l |-> conf_lower, ul |-> <<conf_upper, conf_lower>>,
       rng |-> Surd(FracZero, t, radn), mean |-> mean, var |-> variance,
       std |-> np_std(items), t |-> tstud]

conf_level(data, method, tstud) ==
  IF ~IsSeqObj(data) THEN Raise("TypeError")        \* lines 148-155
  ELSE IF data.type = "list"
    THEN Raise("AttributeError")                    \* line 156: list has no .size
  ELSE IF method = "var"
    THEN IF ~IsBound("alpha", ConfLocals) THEN Raise("NameError")
         ELSE Raise("UnboundLocalError")  \* line 176: conf_range never assigned
  ELSE IF method = "std"
    THEN IF ~IsBound("self", ConfLocals) THEN Raise("NameError")
         ELSE IF data.items = <<>> THEN Return(ConfRecordEmpty(tstud))
         ELSE Return(ConfRecord(data.items, tstud))
  ELSE Raise("AttributeError")                      \* line 169

(***************************************************************************)
(* conf_clean: the loop of lines 190-197, whose body ends in `return mask` *)
(***************************************************************************)
conf_clean(data, tstud) ==
  IF ~IsSeqObj(data) THEN Raise("TypeError")        \* len(data), line 190
  ELSE IF data.items = <<>> THEN Return(PyNone)     \* no iteration, no return
  ELSE LET data_miss == NdArray(Tail(data.items))   \* np.delete(data, 0)
           r == conf_level(data_miss, "std", tstud)
       IN  IF r.kind = "raise" THEN r
           ELSE LET cu == r.val.ul[1]
                    cl == r.val.ul[2]
                    x == FracOfInt(data.items[1])
                IN  Return(NdArray(<<SurdLeFrac(cl, x) /\ FracLeSurd(x, cu)>>))

(***************************************************************************)
(* moving_average                                                          *)
(***************************************************************************)
\* sizes 0 .. MaxSize are tried
MaxSize == 5

Sizes == 0 .. MaxSize

\* np.mean of a slice: nan for the empty slice
MeanOrNaN(items) == IF items = <<>> THEN NaN ELSE np_mean(items)

\* a window that takes in the current point: array[row - size + 1:row + 1]
WindowInclusive(items, row, size) == SubSeq(items, row - size + 2, row + 1)

\* datatools.py:215, array[row - size:row] for a 0-based row >= size
Window(items, row, size) == SubSeq(items, row - size + 1, row)

moving_average(array, size) ==
  IF array.type # "ndarray"
    THEN Raise("AttributeError")    \* line 214: no attribute `size`
  ELSE LET n == Len(array.items)
           total == IF n > size THEN n ELSE size
       IN  Return(NdArray(
             [k \in 1 .. total |->
                IF k <= size THEN NaN                       \* line 213
                ELSE MeanOrNaN(Window(array.items, k - 1, size))]))

(***************************************************************************)
(* sqdistance                                                              *)
(***************************************************************************)
MaxPairLen == 2

MaxOrder == 2

PairObjects == {PyList(x) : x \in SeqsUpTo(0 .. MaxVal, MaxPairLen)} \cup {PyNone}

Orders == 1 .. MaxOrder

RECURSIVE Pow(_, _)
Pow(x, n) == IF n = 0 THEN 1 ELSE x * Pow(x, n - 1)

\* datatools.py:230-232 over zip(ar1, ar2)
RECURSIVE DistSum(_, _, _)
DistSum(x, y, order) ==
  IF x = <<>> \/ y = <<>> THEN 0
  ELSE Abs(Pow(x[1], order) - Pow(y[1], order))
         + DistSum(Tail(x), Tail(y), order)

sqdistance(ar1, ar2, order) ==
  IF ~IsSeqObj(ar1) \/ ~IsSeqObj(ar2) THEN Raise("TypeError")   \* line 227
  ELSE IF Len(ar1.items) # Len(ar2.items) THEN Raise("TypeError") \* line 229
  ELSE Return(DistSum(ar1.items, ar2.items, order))

StatCalls ==
  [fn : {"clean3sigma"}, data : Samples, mask : BOOLEAN]
    \cup [fn : {"var_interv"}, data : EdgeObjects]
    \cup [fn : {"chi2test"}, data : Samples \cup HistPairs,
          datatype : {"data", "hist", "other"},
          chi2exp : StatVals, chi2Cr : StatVals]
    \cup [fn : {"conf_level"}, data : Samples, method : Methods, tstud : TVals]
    \cup [fn : {"conf_clean"}, data : Samples, tstud : TVals]
    \cup [fn : {"moving_average"}, data : Samples, size : Sizes]
    \cup [fn : {"sqdistance"}, ar1 : PairObjects, ar2 : PairObjects,
          order : Orders]

CallClean3sigma ==
  /\ call.fn = "clean3sigma"
  /\ result = NoResult
  /\ LET r == clean3sigma(call.data, call.mask)
     IN  /\ result' = r.out
         /\ stdout' = stdout \o r.printed
  /\ UNCHANGED call

CallVarInterv ==
  /\ call.fn = "var_interv"
  /\ result = NoResult
  /\ LET r == var_interv(call.data)
     IN  /\ result' = r.out
         /\ stdout' = stdout \o r.printed
  /\ UNCHANGED call

InitStat ==
  /\ call \in StatCalls
  /\ result = NoResult
  /\ stdout = <<>>

CallChi2test ==
  /\ call.fn = "chi2test"
  /\ result = NoResult
  /\ result' = chi2test(call.data, call.datatype, call.chi2exp, call.chi2Cr)
  /\ UNCHANGED <<call, stdout>>

CallConfLevel ==
  /\ call.fn = "conf_level"
  /\ result = NoResult
  /\ result' = conf_level(call.data, call.method, call.tstud)
  /\ UNCHANGED <<call, stdout>>

CallConfClean ==
  /\ call.fn = "conf_clean"
  /\ result = NoResult
  /\ result' = conf_clean(call.data, call.tstud)
  /\ UNCHANGED <<call, stdout>>

CallMovingAverage ==
  /\ call.fn = "moving_average"
  /\ result = NoResult
  /\ result' = moving_average(call.data, call.size)
  /\ UNCHANGED <<call, stdout>>

CallSqdistance ==
  /\ call.fn = "sqdistance"
  /\ result = NoResult
  /\ result' = sqdistance(call.ar1, call.ar2, call.order)
  /\ UNCHANGED <<call, stdout>>

NextStat ==
  \/ CallClean3sigma
  \/ CallVarInterv
  \/ CallChi2test
  \/ CallConfLevel
  \/ CallConfClean
  \/ CallMovingAverage
  \/ CallSqdistance

SpecStat == InitStat /\ [][NextStat]_vars

(***************************************************************************)
(* tdyn.py: air_h, air_stp, air_tsp, air_pst                               *)
(*                                                                         *)
(* The four functions take their flags as **kwargs, a dictionary from the  *)
(* keyword names given in the call to their values.  The specific heat     *)
(* cp_methane(t_start, t_end, afr, use_new) is a polynomial in floats      *)
(* (lines 66-111); the model keeps it as the coefficient table the call    *)
(* selects (line 71) together with its arguments, and keeps the logarithms *)
(* and powers of the four results as the operands they are taken of.       *)
(***************************************************************************)
\* bounds of the enumerated arguments
MaxDT == 5

MaxEntropy == 1

MaxPressure == 2

\* 0 degrees Celsius in hundredths of a kelvin: the literal 273.15
CelsiusZero == 27315

Temperatures == 273 .. 273 + MaxDT

Entropies == 0 .. MaxEntropy

Pressures == 1 .. MaxPressure

FlagNames == {"use_new", "use_kj"}

\* the dictionaries **kwargs can be: each flag absent, True or False
Kwargs == UNION {[K -> BOOLEAN] : K \in SUBSET FlagNames}

\* tdyn.py:141, 169, 205, 209, 245: `key in kwargs`
InKwargs(key, kwargs) == key \in DOMAIN kwargs

\* tdyn.py:15-111 with afr = 0, as the table selected and the arguments
cp_methane(t_start, t_end, afr, use_new) ==
  [gas_coef |-> IF use_new THEN "gas_coef_new" ELSE "gas_coef",
   t_start |-> t_start, t_end |-> t_end, afr |-> afr]

\* the specific heat the air_* functions ask for: lines 141-144 and alike
AirCp(t_end, kwargs) ==
  IF InKwargs("use_new", kwargs) THEN cp_methane(0, t_end, 0, TRUE)
  ELSE cp_methane(0, t_end, 0, FALSE)

air_h(temperature, kwargs) ==
  Return([air_cp |-> AirCp(Frac(100 * temperature - CelsiusZero, 100), kwargs),
          temperature |-> temperature])

air_stp(temperature, pressure, kwargs) ==
  Return([air_cp |-> AirCp(FracOfInt(temperature), kwargs),
          temperature |-> temperature, pressure |-> pressure])

air_tsp(entropy, pressure, init_temp, kwargs) ==
  Return([air_cp |-> AirCp(FracOfInt(init_temp), kwargs),
          kj |-> InKwargs("use_kj", kwargs),
          entropy |-> entropy, pressure |-> pressure])

air_pst(entropy, temperature, kwargs) ==
  Return([air_cp |-> AirCp(FracOfInt(temperature), kwargs),
          entropy |-> entropy, temperature |-> temperature])

AirFns == {"air_h", "air_stp", "air_tsp", "air_pst"}

TdynCalls ==
  [fn : AirFns, temperature : Temperatures, pressure : Pressures,
   entropy : Entropies, kwargs : Kwargs]

CallAirH ==
  /\ call.fn = "air_h"
  /\ result = NoResult
  /\ result' = air_h(call.temperature, call.kwargs)
  /\ UNCHANGED <<call, stdout>>

CallAirStp ==
  /\ call.fn = "air_stp"
  /\ result = NoResult
  /\ result' = air_stp(call.temperature, call.pressure, call.kwargs)
  /\ UNCHANGED <<call, stdout>>

CallAirTsp ==
  /\ call.fn = "air_tsp"
  /\ result = NoResult
  /\ result' = air_tsp(call.entropy, call.pressure, call.temperature,
                       call.kwargs)
  /\ UNCHANGED <<call, stdout>>

CallAirPst ==
  /\ call.fn = "air_pst"
  /\ result = NoResult
  /\ result' = air_pst(call.entropy, call.temperature, call.kwargs)
  /\ UNCHANGED <<call, stdout>>

InitTdyn ==
  /\ call \in TdynCalls
  /\ result = NoResult
  /\ stdout = <<>>

NextTdyn == CallAirH \/ CallAirStp \/ CallAirTsp \/ CallAirPst

SpecTdyn == InitTdyn /\ [][NextTdyn]_vars

(***************************************************************************)
(* tcconvert.py: tc_emf                                                    *)
(*                                                                         *)
(* A coefficient written `m * 10 ** (e)` is the record of its digits m,    *)
(* its exponent e and a, the index i under which the docstring (lines      *)
(* 29-62) lists it as A_i.  The EMF is kept as its terms ai * temp**order  *)
(* (line 103), each the coefficient and the power it multiplies.           *)
(***************************************************************************)
\* temperatures -MaxTcTemp .. MaxTcTemp are tried
MaxTcTemp == 30

TcTemps == -MaxTcTemp .. MaxTcTemp

TcTypes == {"k", "j"}

\* tcconvert.py:69-80, the list of ten coefficients for temp <= 0
CoefNegative ==
  <<
    [a |-> 1, mant |-> "3.9450128025", exp |-> -2],
    [a |-> 2, mant |-> "2.3622373598", exp |-> -5],
    [a |-> 3, mant |-> "-3.2858906784", exp |-> -7],
    [a |-> 4, mant |-> "-4.9904828777", exp |-> -9],
    [a |-> 5, mant |-> "-6.7509059173", exp |-> -11],
    [a |-> 6, mant |-> "-5.7410327428", exp |-> -13],
    [a |-> 7, mant |-> "-3.1088872894", exp |-> -15],
    [a |-> 8, mant |-> "-1.0451609365", exp |-> -17],
    [a |-> 9, mant |-> "-1.9889266878", exp |-> -20],
    [a |-> 10, mant |-> "-1.6322697486", exp |-> -23]
  >>

\* tcconvert.py:83-94, the list of ten coefficients for temp > 0
CoefPositive ==
  <<
    [a |-> 0, mant |-> "-1.7600413686", exp |-> -2],
    [a |-> 1, mant |-> "3.8921204975", exp |-> -2],
    [a |-> 2, mant |-> "1.8558770032", exp |-> -5],
    [a |-> 3, mant |-> "-9.9457592874", exp |-> -8],
    [a |-> 4, mant |-> "3.1840945719", exp |-> -10],
    [a |-> 5, mant |-> "-5.6072844889", exp |-> -13],
    [a |-> 6, mant |-> "5.6075059059", exp |-> -16],
    [a |-> 7, mant |-> "-3.2020720003", exp |-> -19],
    [a |-> 8, mant |-> "9.7151147152", exp |-> -23],
    [a |-> 9, mant |-> "-1.2104721275", exp |-> -26]
  >>

\* tcconvert.py:95-98
ConstPositive ==
  <<[mant |-> "1.185976", exp |-> -1], [mant |-> "-1.183432", exp |-> -4]>>

\* the names bound at module level in tcconvert.py (the file imports nothing)
TcModuleGlobals == {"tc_emf", "tc_temp"}

TcEmfLocals == {"temp", "tctype", "coef", "const"}

\* tcconvert.py:103: zip(coef, range(len(coef)))
EmfTerms(coef) == [k \in 1 .. Len(coef) |-> [ai |-> coef[k], order |-> k - 1]]

tc_emf(temp, tctype) ==
  IF tctype # "k" THEN Raise("AttributeError")           \* line 100
  ELSE LET coef == IF temp <= 0 THEN CoefNegative ELSE CoefPositive
           const == IF temp <= 0 THEN PyNone ELSE ConstPositive
       IN  IF "np" \notin TcEmfLocals \cup TcModuleGlobals
             THEN Raise("NameError")                     \* line 102 reads `np`
           ELSE Return([terms |-> EmfTerms(coef), const |-> const,
                        temp |-> temp])

TcCalls == [fn : {"tc_emf"}, temp : TcTemps, tctype : TcTypes]

CallTcEmf ==
  /\ call.fn = "tc_emf"
  /\ result = NoResult
  /\ result' = tc_emf(call.temp, call.tctype)
  /\ UNCHANGED <<call, stdout>>

InitTc ==
  /\ call \in TcCalls
  /\ result = NoResult
  /\ stdout = <<>>

NextTc == CallTcEmf

SpecTc == InitTc /\ [][NextTc]_vars

(***************************************************************************)
(* Properties                                                              *)
(***************************************************************************)
Done == result # NoResult

ValidTime(t) ==
  /\ t.hours \in 0 .. HourLimit - 1
  /\ t.minutes \in 0 .. MinSecLimit - 1
  /\ t.seconds \in 0 .. MinSecLimit - 1

\* C1: for hours in 0..23, minutes and seconds in 0..59 and mod in {1, 1000},
\* int2loctime(loctime2int(h, m, s, mod), mod) returns (h, m, s): the hours
\* and minutes as those ints, the seconds as a float equal to s.
C1_RoundTrip ==
  (call.fn = "int2loctime" /\ ValidTime(call.of) /\ call.mod \in {1, 1000})
    => /\ result.kind = "return"
       /\ result.val.hours = call.of.hours
       /\ result.val.minutes = call.of.minutes
       /\ result.val.seconds = FracOfInt(call.of.seconds)

\* the round trip of 23:59:59 in milliseconds has been made
C1_Witness ==
  /\ call.fn = "int2loctime"
  /\ call.mod = 1000
  /\ call.of = [hours |-> 23, minutes |-> 59, seconds |-> 59]
  /\ call.time = 86399000
  /\ result.kind = "return"
  /\ result.val.hours = 23

\* C2: loctime2int returns no integer but fails with an input-validation
\* error whenever hours = 24 or minutes = 60, whatever seconds and mod are.
C2_BoundaryRejected ==
  (call.fn = "loctime2int" /\ Done
     /\ (call.hours = 24 \/ call.minutes = 60))
    => result = Raise("AttributeError")

NumericSample(data) == data.type = "ndarray" /\ Len(data.items) >= 1

\* C3: for every non-empty sample, conf_clean returns a boolean mask as long
\* as the sample, one entry for each index of the sample.
C3_MaskLength ==
  (call.fn = "conf_clean" /\ Done /\ NumericSample(call.data))
    => /\ result.kind = "return"
       /\ result.val.type = "ndarray"
       /\ Len(result.val.items) = Len(call.data.items)
       /\ \A i \in 1 .. Len(call.data.items) : result.val.items[i] \in BOOLEAN

\* the valid inputs of chi2test: a sample in 'data' mode, a pair of
\* frequencies and one more edge than frequencies in 'hist' mode
ValidChi2Input ==
  \/ call.datatype = "data" /\ NumericSample(call.data)
  \/ /\ call.datatype = "hist"
     /\ call.data.type = "tuple"
     /\ Len(call.data.freq) >= 1
     /\ Len(call.data.ranges) = Len(call.data.freq) + 1

\* C4: for every valid input of chi2test exactly one of the flags H0 and H1
\* of the returned record is true, also when the statistic equals the
\* critical value.
C4_FlagsExclusive ==
  (call.fn = "chi2test" /\ Done /\ ValidChi2Input)
    => /\ result.kind = "return"
       /\ result.val.H0 # result.val.H1

StrictlyIncreasing(x) == \A i \in 1 .. Len(x) - 1 : x[i] < x[i + 1]

RECURSIVE SumSqDev(_, _, _)
SumSqDev(x, n, S) ==
  IF x = <<>> THEN 0
  ELSE (n * x[1] - S) * (n * x[1] - S) + SumSqDev(Tail(x), n, S)

WithinOneSigma(v, x) ==
  LET n == Len(x)
      S == SumSeq(x)
  IN  n * (n * v - S) * (n * v - S) <= SumSqDev(x, n, S)

RaisesTypeError ==
  \/ call.fn \in {"clean3sigma", "var_interv"} /\ ~IsSeqObj(call.data)
  \/ call.fn = "clean3sigma" /\ call.data.type = "list" /\ ~call.mask

\* C7: when the computation of clean3sigma or var_interv raises a TypeError,
\* the call fails with that TypeError: it returns no value and prints nothing.
C7_TypeErrorSurfaces ==
  (Done /\ RaisesTypeError) => (result = Raise("TypeError") /\ stdout = <<>>)

\* C8: chi2test with a mode other than 'data' and 'hist' fails with an
\* AttributeError, and with a recognized mode and a valid input it does not
\* fail but returns the result record.
C8_ModeSelection ==
  (call.fn = "chi2test" /\ Done)
    => /\ call.datatype \notin {"data", "hist"}
            => result = Raise("AttributeError")
       /\ ValidChi2Input => result.kind = "return"

ConfFields == {"l", "u", "rng", "mean", "var", "std", "t"}

\* C9: for a numeric sample and both methods 'var' and 'std', conf_level
\* returns a record with the lower and upper bound, the half-width 'rng',
\* the mean, variance, standard deviation and t value; only an unrecognized
\* method fails with an AttributeError.
C9_ConfRecord ==
  (call.fn = "conf_level" /\ Done /\ NumericSample(call.data))
    => /\ call.method \in {"var", "std"}
            => (result.kind = "return" /\ ConfFields \subseteq DOMAIN result.val)
       /\ call.method \notin {"var", "std"} => result = Raise("AttributeError")
       /\ result = Raise("AttributeError") => call.method \notin {"var", "std"}

FlagIsTrue(key) == key \in DOMAIN call.kwargs /\ call.kwargs[key]

\* C11: air_h, air_stp, air_tsp and air_pst take the specific heat from the
\* new coefficient table exactly when use_new is True (use_new=False is as
\* leaving the flag out), and air_tsp uses the kilojoule scale exactly when
\* use_kj is True.
C11_FlagsByValue ==
  (call.fn \in AirFns /\ Done)
    => /\ result.kind = "return"
       /\ (result.val.air_cp.gas_coef = "gas_coef_new") = FlagIsTrue("use_new")
       /\ call.fn = "air_tsp" => (result.val.kj = FlagIsTrue("use_kj"))

\* the sum of the terms at temp = 0 is zero: 0 ** 0 is 1 and every other
\* power of 0 is 0, so only a coefficient of the power 0 contributes
ZeroAtZero(terms) ==
  \A k \in 1 .. Len(terms) : terms[k].order = 0 => terms[k].ai.mant = "0"

\* C12: for type 'k', tc_emf returns the sum of terms A_i * t^i in which the
\* coefficient documented as A_i multiplies the i-th power of t in both
\* ranges; for temp <= 0 there are the eleven terms i = 0..10 with A_0 = 0
\* and A_1 = 3.9450128025e-2 on t^1, so that tc_emf(0) = 0.
C12_CoefficientPowers ==
  (call.fn = "tc_emf" /\ Done /\ call.tctype = "k")
    => /\ result.kind = "return"
       /\ \A k \in 1 .. Len(result.val.terms) :
            result.val.terms[k].ai.a = result.val.terms[k].order
       /\ call.temp <= 0
            => /\ Len(result.val.terms) = 11
               /\ result.val.terms[1].ai.mant = "0"
               /\ result.val.terms[2].ai.mant = "3.9450128025"
               /\ result.val.terms[2].ai.exp = -2
       /\ call.temp = 0 => ZeroAtZero(result.val.terms)

\* x[lo] + ... + x[hi]
RECURSIVE SumRange(_, _, _)
SumRange(x, lo, hi) == IF lo > hi THEN 0 ELSE x[lo] + SumRange(x, lo + 1, hi)

\* the entries of a moving average r of x: the first `size` are nan, and the
\* entry at 0-based k >= size is the mean of x[k-size .. k-1] (the mean of no
\* elements, for size = 0, is nan)
MovingEntries(r, x, size) ==
  /\ \A j \in 1 .. size : j <= Len(r) => IsNaN(r[j])
  /\ \A j \in size + 1 .. Len(x) :
       IF size = 0 THEN IsNaN(r[j])
       ELSE /\ ~IsNaN(r[j])
            /\ r[j].den > 0
            /\ r[j].num * size = r[j].den * SumRange(x, j - size, j - 1)

RECURSIVE SumSqDiff(_, _)
SumSqDiff(x, y) ==
  IF x = <<>> THEN 0
  ELSE (x[1] - y[1]) * (x[1] - y[1]) + SumSqDiff(Tail(x), Tail(y))

\* C14: sqdistance raises a TypeError when its arguments differ in length,
\* and for arguments of equal length and the default order 1 returns the
\* sum over the positions of (ar1[i] - ar2[i])^2.
C14_SquaredDistance ==
  (call.fn = "sqdistance" /\ Done /\ IsSeqObj(call.ar1) /\ IsSeqObj(call.ar2))
    => /\ Len(call.ar1.items) # Len(call.ar2.items)
            => result = Raise("TypeError")
       /\ (Len(call.ar1.items) = Len(call.ar2.items) /\ call.order = 1)
            => result = Return(SumSqDiff(call.ar1.items, call.ar2.items))

====
